---- MODULE Spec2Model ----
(***************************************************************************)
(* Model of govno_price_widget.py: the CryptoPriceWidget class (a tk.Tk    *)
(* window), its construction sequence, its pointer-event handlers, the     *)
(* background price update thread and main().                              *)
(*                                                                         *)
(* Three execution contexts are modelled:                                  *)
(*   main   - main() running the constructor, then mainloop (m_pc);        *)
(*   ui     - the handlers the Tk event loop runs while m_pc = "mainloop"; *)
(*   worker - the daemon thread running _update_price_loop (w_pc).         *)
(* Handlers of the event loop are atomic (the loop is single threaded);    *)
(* the worker is split at every access to state the two contexts share.    *)
(*                                                                         *)
(* Units: prices are integers in micro-USD (6 fractional digits), changes  *)
(* are integers in thousandths of a percent.                               *)
(***************************************************************************)
EXTENDS Integers, Sequences, FiniteSets, TLC

\* ------------------------------------------------------------------ bounds
PriceStep == 650000    \* the prices a response may carry are 0 and PriceStep
MaxFetchesAfterClose == 2  \* cap of the history counter fetchesAfterClose
ChangeStep == 504      \* the changes are -ChangeStep, 0 and ChangeStep
ScreenWidth == 40      \* winfo_screenwidth()
WinW == 1              \* winfo_width(): pointer events land inside the window
WinH == 0              \* winfo_height(), likewise
MaxConsecFails == 2    \* where the history counter consecFails stops counting

\* ------------------------------------------------------- program constants
Margin == 20
UpColor == "#00ff00"
DownColor == "#ff0000"
InitColor == "white"

None == [none |-> TRUE]
\* Optional[float]: the empty sequence for None, <<p>> for a price p
NoPrice == <<>>

VARIABLES
    m_pc,            \* position of the main context (constructor, mainloop, exit)
    logo_exists,     \* os.path.exists(image_path)
    image_label,     \* TRUE when the attribute self.image_label exists
    bound,           \* TRUE when the pointer events are bound
    running,         \* self.running
    previous_price,  \* self.previous_price
    price_label,     \* [text, fg] of self.price_label, None before creation
    percent_label,   \* [text, fg] of self.percent_label, None before creation
    drag_data,       \* self.drag_data, None when the attribute is absent
    win,             \* window position [x, y]
    w_pc,            \* position of the update thread
    data,            \* the response of the current cycle
    \* history variables (not program state)
    failedSince,       \* a cycle ended without a sample since the last applied one
    consecFails,       \* consecutive cycles whose fetch gave None, up to now
    sinceFetch,        \* <<n>>: n sleeps have ended since the last fetch started;
                       \* <<>> before the first fetch
    fetchesAfterClose, \* fetches started while running was already false
    closedInSleep,     \* quit() ran while the worker was in time.sleep
    cycleStart,        \* display state when the current loop iteration began
    applied,           \* the last sample whose _update_price_display returned
    prevApplied,       \* the price of the sample applied before it
    writer,            \* context of the last write to a label
    sess,              \* the current drag session: button-down and last move;
                       \* d0 is pointer minus window origin at button-down
    lastEv,            \* the pointer event handled last
    callback_error     \* a pointer-event handler raised

vars == <<m_pc, logo_exists, image_label, bound, running, previous_price,
          price_label, percent_label, drag_data, win, w_pc, data,
          failedSince, consecFails, sinceFetch, fetchesAfterClose, closedInSleep, cycleStart, applied,
          prevApplied,
          writer, sess, lastEv, callback_error>>

uiVars == <<drag_data, win, sess, lastEv, callback_error>>
histVars == <<failedSince, consecFails, sinceFetch, fetchesAfterClose, cycleStart,
              applied, prevApplied>>
workerVars == <<w_pc, data, histVars>>
displayVars == <<previous_price, price_label, percent_label, writer>>
startupVars == <<logo_exists, image_label, bound>>

Abs(n) == IF n < 0 THEN -n ELSE n

Prices == {0, PriceStep}
Changes == {-ChangeStep, 0, ChangeStep}

\* What the display shows: both labels and the remembered previous price.
Display == <<price_label, percent_label, previous_price>>

\* ------------------------------------------------------------ formatting
\* f"${price:.6f}"
FormatPrice(price) ==
    [prefix |-> "$", neg |-> price < 0,
     whole |-> Abs(price) \div 1000000, frac |-> Abs(price) % 1000000]

\* '↑' if change >= 0 else '↓'
Glyph(change) == IF change >= 0 THEN "up_arrow" ELSE "down_arrow"

\* f"{glyph}{abs(change):.2f}%": thousandths rounded to hundredths (the
\* glyph comes from the sign of the unrounded value; no value of Changes
\* is an exact binary tie, where Python would round half to even)
FormatChange(change) ==
    LET r == (Abs(change) + 5) \div 10
    IN  [glyph |-> Glyph(change), whole |-> r \div 100, frac |-> r % 100,
         suffix |-> "%"]

PriceColorMut(prev, price) ==
    IF prev = NoPrice \/ price > prev[1] THEN UpColor ELSE DownColor
\* line 164
PriceColor(prev, price) ==
    IF prev = NoPrice \/ price >= prev[1] THEN UpColor ELSE DownColor

PercentColorMut(change) == IF change > 0 THEN UpColor ELSE DownColor
\* line 165
PercentColor(change) == IF change >= 0 THEN UpColor ELSE DownColor

\* ------------------------------------------------------------ responses
\* What one GET can come back with.
TransportKinds == {"transport_error", "http_status"}
SkipKinds == {"empty_body", "no_data_key"}
MalformedKinds == {"no_attributes", "no_price", "bad_price", "no_h24", "bad_h24"}
FailKinds == TransportKinds \cup SkipKinds \cup MalformedKinds \cup {"bad_json"}

NoResponse == [kind |-> "pending", price |-> 0, change |-> 0]
Responses ==
    {[kind |-> k, price |-> 0, change |-> 0] : k \in FailKinds}
    \cup {[kind |-> "ok", price |-> p, change |-> c] : p \in Prices, c \in Changes}

\* _fetch_price_data: "none" when RequestException is caught, "json" when
\* response.json() returns.  response.json() on an undecodable body raises
\* an error that is a RequestException only in newer releases of requests:
\* both outcomes are possible.
FetchResults(kind) ==
    IF kind \in TransportKinds THEN {"none"}
    ELSE IF kind = "bad_json" THEN {"none", "raise"}
    ELSE {"json"}

LoopBranchNoSleepMut(kind, fetched) ==
    IF fetched = "raise" THEN "crashed"
    ELSE IF fetched = "none" THEN "check"
    ELSE IF kind \in SkipKinds THEN "sleep"
    ELSE IF kind \in MalformedKinds THEN "crashed"
    ELSE "disp_price"
LoopBranchMut(kind, fetched) ==
    IF fetched = "raise" THEN "crashed"
    ELSE IF fetched = "none" THEN "sleep"
    ELSE IF kind = "empty_body" THEN "sleep"
    ELSE IF kind \in MalformedKinds THEN "crashed"
    ELSE "disp_price"
\* lines 184-189: where the loop goes after the fetch
LoopBranch(kind, fetched) ==
    IF fetched = "raise" THEN "crashed"               \* uncaught in the thread
    ELSE IF fetched = "none" THEN "sleep"             \* data is None
    ELSE IF kind \in SkipKinds THEN "sleep"           \* falsy, or no "data" key
    ELSE IF kind \in MalformedKinds THEN "crashed"    \* KeyError/TypeError/ValueError
    ELSE "disp_price"

AfterSleepMut == "fetch"
\* line 191 back to line 181: after the sleep the flag is tested again
AfterSleep == "check"

LoopCondCapMut(flag) == flag /\ consecFails < MaxConsecFails
LoopCondMut(flag) == TRUE
\* line 181: while self.running
LoopCond(flag) == flag

\* ---------------------------------------------------------------- Init
\* The state after lines 31-34 of __init__.
Init ==
    /\ m_pc = "setup_window"
    /\ logo_exists \in BOOLEAN
    /\ image_label = FALSE
    /\ bound = FALSE
    /\ running = TRUE
    /\ previous_price = NoPrice
    /\ price_label = None
    /\ percent_label = None
    /\ drag_data = None
    /\ win = [x |-> 0, y |-> 0]
    /\ w_pc = "not_started"
    /\ data = NoResponse
    /\ failedSince = FALSE
    /\ consecFails = 0
    /\ sinceFetch = <<>>
    /\ fetchesAfterClose = 0
    /\ closedInSleep = FALSE
    /\ cycleStart = <<None, None, NoPrice>>
    /\ applied = None
    /\ prevApplied = NoPrice
    /\ writer = "none"
    /\ sess = None
    /\ lastEv = "none"
    /\ callback_error = FALSE

\* ------------------------------------------------------ construction
\* _setup_window (lines 42-57)
SetupWindow ==
    /\ m_pc = "setup_window"
    /\ m_pc' = "load_logo"
    /\ UNCHANGED <<startupVars, running, displayVars, uiVars, workerVars, closedInSleep>>

\* _load_logo (lines 64-86): any failure is caught and printed
LoadLogo ==
    /\ m_pc = "load_logo"
    /\ image_label' = logo_exists
    /\ m_pc' = "create_price_labels"
    /\ UNCHANGED <<logo_exists, bound, running, displayVars, uiVars, workerVars, closedInSleep>>

\* _create_price_labels (lines 88-110)
CreatePriceLabels ==
    /\ m_pc = "create_price_labels"
    /\ price_label' = [text |-> [lit |-> "Loading..."], fg |-> InitColor]
    /\ percent_label' = [text |-> [lit |-> ""], fg |-> InitColor]
    /\ m_pc' = "bind_events"
    /\ UNCHANGED <<startupVars, running, previous_price, writer, uiVars, workerVars, closedInSleep>>

\* _bind_events (lines 112-118): the tuple names self.image_label, which
\* raises AttributeError before any binding when the logo was not loaded.
BindEvents ==
    /\ m_pc = "bind_events"
    /\ IF image_label
       THEN bound' = TRUE /\ m_pc' = "position_window"
       ELSE bound' = FALSE /\ m_pc' = "crashed"
    /\ UNCHANGED <<logo_exists, image_label, running, displayVars, uiVars, workerVars, closedInSleep>>

\* line 124: f'+{self.winfo_screenwidth()-width-20}+20'
InitialPosition == [x |-> ScreenWidth - WinW - Margin, y |-> Margin]

\* _position_window (lines 120-124)
PositionWindow ==
    /\ m_pc = "position_window"
    /\ win' = InitialPosition
    /\ m_pc' = "start_price_updates"
    /\ UNCHANGED <<startupVars, running, displayVars, drag_data, sess, lastEv,
                   callback_error, workerVars, closedInSleep>>

\* _start_price_updates (lines 126-130), then main() enters mainloop
StartPriceUpdates ==
    /\ m_pc = "start_price_updates"
    /\ w_pc' = "check"
    /\ cycleStart' = Display
    /\ m_pc' = "mainloop"
    /\ UNCHANGED <<startupVars, running, displayVars, uiVars, data, failedSince,
                   consecFails, sinceFetch, fetchesAfterClose, applied, prevApplied,
                   closedInSleep>>

\* ------------------------------------------------------------- worker
FlagAfterLoopTestMut(flag) == TRUE
\* line 181 only reads self.running
FlagAfterLoopTest(flag) == flag

\* line 181
CheckRunning ==
    /\ w_pc = "check"
    /\ w_pc' = IF LoopCond(running) THEN "fetch" ELSE "done"
    /\ running' = FlagAfterLoopTest(running)
    /\ UNCHANGED <<m_pc, startupVars, displayVars, uiVars, data, histVars,
                   closedInSleep>>

\* line 182, requests.get is issued
Fetch ==
    /\ w_pc = "fetch"
    /\ fetchesAfterClose < MaxFetchesAfterClose
    /\ fetchesAfterClose' = IF running THEN fetchesAfterClose ELSE fetchesAfterClose + 1
    /\ sinceFetch' = <<0>>
    /\ w_pc' = "fetching"
    /\ UNCHANGED <<m_pc, startupVars, running, displayVars, uiVars, data, failedSince,
                   consecFails, cycleStart, applied, prevApplied, closedInSleep>>

\* lines 153-160 and 184-187: the response arrives and is taken apart
Response ==
    /\ w_pc = "fetching"
    /\ \E resp \in Responses : \E fetched \in FetchResults(resp.kind) :
         /\ data' = resp
         /\ w_pc' = LoopBranch(resp.kind, fetched)
         /\ sinceFetch' = sinceFetch
         /\ failedSince' = (failedSince \/ resp.kind # "ok")
         /\ consecFails' = IF resp.kind \notin TransportKinds THEN 0
                           ELSE IF consecFails < MaxConsecFails THEN consecFails + 1
                           ELSE consecFails
    /\ UNCHANGED <<m_pc, startupVars, running, displayVars, uiVars,
                   fetchesAfterClose, cycleStart, applied, prevApplied, closedInSleep>>

\* lines 164, 167-170
ConfigurePriceLabel ==
    /\ w_pc = "disp_price"
    /\ price_label' = [text |-> FormatPrice(data.price),
                       fg |-> PriceColor(previous_price, data.price)]
    /\ writer' = "worker"
    /\ w_pc' = "disp_percent"
    /\ UNCHANGED <<m_pc, startupVars, running, previous_price, percent_label, uiVars,
                   data, histVars, closedInSleep>>

\* lines 165, 172-175
ConfigurePercentLabel ==
    /\ w_pc = "disp_percent"
    /\ percent_label' = [text |-> FormatChange(data.change),
                         fg |-> PercentColor(data.change)]
    /\ writer' = "worker"
    /\ w_pc' = "set_previous"
    /\ UNCHANGED <<m_pc, startupVars, running, previous_price, price_label, uiVars,
                   data, histVars, closedInSleep>>

NextPreviousPriceMut(prev, price) ==
    IF prev = NoPrice \/ price >= prev[1] THEN <<price>> ELSE prev
\* line 177: self.previous_price = price
NextPreviousPrice(prev, price) == <<price>>

\* line 177; _update_price_display returns and the sample counts as applied
SetPreviousPrice ==
    /\ w_pc = "set_previous"
    /\ previous_price' = NextPreviousPrice(previous_price, data.price)
    /\ applied' = [price |-> data.price, change |-> data.change,
                   price_fg |-> price_label.fg,
                   percent_fg |-> percent_label.fg,
                   glyph |-> percent_label.text.glyph,
                   afterFailure |-> failedSince]
    /\ prevApplied' = IF applied = None THEN NoPrice ELSE <<applied.price>>
    /\ failedSince' = FALSE
    /\ w_pc' = "sleep"
    /\ UNCHANGED <<m_pc, startupVars, running, price_label, percent_label, writer,
                   uiVars, data, consecFails, sinceFetch, fetchesAfterClose,
                   cycleStart, closedInSleep>>

\* line 191: time.sleep returns and the next iteration begins
WakeUp ==
    /\ w_pc = "sleep"
    /\ w_pc' = AfterSleep
    /\ data' = NoResponse
    /\ cycleStart' = Display
    /\ sinceFetch' = IF sinceFetch = <<>> THEN sinceFetch ELSE <<sinceFetch[1] + 1>>
    /\ UNCHANGED <<m_pc, startupVars, running, displayVars, uiVars, failedSince,
                   consecFails, fetchesAfterClose, applied, prevApplied, closedInSleep>>

\* ----------------------------------------------------------- UI events
\* Pointer positions (x_root, y_root) the model draws events from.
PtrX == (ScreenWidth - WinW - Margin)..(ScreenWidth - Margin)
PtrY == Margin..(Margin + WinH)

Dispatching == m_pc = "mainloop" /\ bound

\* A button event is delivered to the widget under the pointer.
OverWindow(px, py) ==
    /\ px - win.x \in 0..WinW
    /\ py - win.y \in 0..WinH

StartDragDataMut(px, py, wx, wy) == [x |-> px - wx, y |-> px - wx]
\* lines 134-137
StartDragData(px, py, wx, wy) == [x |-> px - wx, y |-> py - wy]

\* _start_drag (lines 133-137)
StartDrag ==
    /\ Dispatching
    /\ \E px \in PtrX, py \in PtrY :
         /\ OverWindow(px, py)
         /\ drag_data' = StartDragData(px, py, win.x, win.y)
         /\ sess' = [dx0 |-> px - win.x, dy0 |-> py - win.y,
                     displaced |-> (win # InitialPosition),
                     moved |-> FALSE, px1 |-> px, py1 |-> py]
    /\ lastEv' = "down"
    /\ UNCHANGED <<m_pc, startupVars, running, displayVars, win, callback_error,
                   workerVars, closedInSleep>>

\* lines 141-143: the position handed to geometry()
OnDragPos(px, py, dd) == [x |-> px - dd.x, y |-> py - dd.y]

\* _on_drag (lines 139-143)
OnDrag ==
    /\ Dispatching
    /\ \E px \in PtrX, py \in PtrY :
         IF drag_data # None
         THEN /\ win' = OnDragPos(px, py, drag_data)
              /\ sess' = IF sess = None THEN sess
                         ELSE [sess EXCEPT !.moved = TRUE, !.px1 = px, !.py1 = py]
         ELSE UNCHANGED <<win, sess>>
    /\ lastEv' = "move"
    /\ UNCHANGED <<m_pc, startupVars, running, displayVars, drag_data, callback_error,
                   workerVars, closedInSleep>>

StopDragDataMut == drag_data
\* line 147: del self.drag_data
StopDragData == None

StopDragRaisesMut(dd) == dd = None
\* line 146: the del is guarded by hasattr, so it never raises
StopDragRaises(dd) == FALSE

\* _stop_drag (lines 145-147)
StopDrag ==
    /\ Dispatching
    /\ drag_data' = StopDragData
    /\ callback_error' = (callback_error \/ StopDragRaises(drag_data))
    /\ sess' = None
    /\ lastEv' = IF sess = None THEN "up_idle" ELSE "up"
    /\ UNCHANGED <<m_pc, startupVars, running, displayVars, win, workerVars, closedInSleep>>

\* What quit() can touch: the flag, the event loop, and (it does not) the
\* display and the drag state.
QuitState ==
    [running |-> running, loop |-> m_pc, price_label |-> price_label,
     percent_label |-> percent_label, previous_price |-> previous_price,
     drag_data |-> drag_data, win |-> win]

QuitResultDragMut(st) ==
    IF st.drag_data # None THEN st
    ELSE [st EXCEPT !.running = FALSE, !.loop = "stopped"]
QuitResultToggleMut(st) ==
    [st EXCEPT !.running = ~st.running,
               !.loop = IF st.loop = "stopped" THEN "mainloop" ELSE "stopped"]
\* lines 195-196: self.running = False; super().quit()
QuitResult(st) == [st EXCEPT !.running = FALSE, !.loop = "stopped"]

\* quit (lines 193-196), bound to <Button-3>: mainloop returns after it
Quit ==
    /\ Dispatching
    /\ LET r == QuitResult(QuitState)
       IN  /\ running' = r.running
           /\ m_pc' = r.loop
           /\ price_label' = r.price_label
           /\ percent_label' = r.percent_label
           /\ previous_price' = r.previous_price
           /\ drag_data' = r.drag_data
           /\ win' = r.win
    /\ closedInSleep' = (w_pc = "sleep")
    /\ lastEv' = "click3"
    /\ UNCHANGED <<startupVars, writer, sess, callback_error, workerVars>>

\* main() returns (lines 199-201): the interpreter exits and the daemon
\* thread (line 129) ends wherever it is.
ProcessExit ==
    /\ m_pc = "stopped"
    /\ m_pc' = "exited"
    /\ w_pc' = IF w_pc \in {"done", "crashed"} THEN w_pc ELSE "killed"
    /\ UNCHANGED <<startupVars, running, displayVars, uiVars, data, histVars,
                   closedInSleep>>

Next ==
    \/ SetupWindow \/ LoadLogo \/ CreatePriceLabels \/ BindEvents
    \/ PositionWindow \/ StartPriceUpdates
    \/ CheckRunning \/ Fetch \/ Response \/ ConfigurePriceLabel
    \/ ConfigurePercentLabel \/ SetPreviousPrice \/ WakeUp
    \/ StartDrag \/ OnDrag \/ StopDrag \/ Quit \/ ProcessExit

Spec == Init /\ [][Next]_vars

\* Under fairness: a sleeping thread wakes up and a runnable thread gets to
\* test its loop condition and to issue its request.
SpecLive == Spec /\ WF_vars(WakeUp) /\ WF_vars(CheckRunning) /\ WF_vars(Fetch)

\* ================================================================ claims

\* C1: a response whose body lacks attributes, base_token_price_usd or
\* price_change_percentage.h24, or holds a non-numeric value there, leaves
\* the worker loop alive (the cycle counts as "no data").
C1_BadBodyKeepsLoopAlive ==
    data.kind \in MalformedKinds => w_pc # "crashed"

\* C2: the labels are written only by steps of the UI context, never by a
\* step of the background worker.
C2_OnlyUIWritesDisplay == writer # "worker"

\* C3 (as stated): no fetch is started after running has become false.
C3_NoFetchAfterClose == fetchesAfterClose = 0

\* C3 (amended): at most one fetch is started after running has become
\* false, the one whose loop test read the flag before quit() cleared it;
\* a loop test that reads false is followed by no fetch.
C3_AtMostOneFetchAfterClose ==
    /\ fetchesAfterClose <= 1
    /\ w_pc = "done" => ~running

C3_Witness == fetchesAfterClose = 1 /\ w_pc = "done"

\* C4: when quit() runs while the worker is in time.sleep, the worker
\* starts no fetch afterwards, leaves the loop when the sleep ends, and
\* eventually is terminated.
C4_CloseInSleepExits ==
    /\ [](closedInSleep =>
            /\ fetchesAfterClose = 0
            /\ w_pc \in {"sleep", "check", "done", "killed"})
    /\ (closedInSleep ~> w_pc \in {"done", "killed"})

C4_Witness == closedInSleep /\ w_pc = "done"

\* C5: once running is false, no step changes the displayed price, the
\* displayed change, their colours or previous_price.
C5_NoDisplayWriteAfterClose == [][~running => Display' = Display]_vars

\* C6: when the logo file is absent the constructor does not fail.
C6_MissingLogoNonFatal == ~logo_exists => m_pc # "crashed"

\* C7: in a cycle whose fetch fails or whose response is malformed, both
\* labels and previous_price are what they were when the cycle started.
C7_FailedCycleKeepsDisplay ==
    data.kind \in FailKinds => Display = cycleStart

C7_Witness ==
    /\ data.kind \in FailKinds
    /\ w_pc = "sleep"
    /\ previous_price # NoPrice

\* C8: the first applied sample is shown in the up colour; every later one
\* is shown in the up colour iff its price is >= the price of the sample
\* applied before it, and in the down colour otherwise.
C8_PriceColorFollowsPrevious ==
    applied # None =>
        /\ applied.price_fg \in {UpColor, DownColor}
        /\ prevApplied = NoPrice => applied.price_fg = UpColor
        /\ prevApplied # NoPrice =>
              (applied.price_fg = UpColor <=> applied.price >= prevApplied[1])

C8_Witness ==
    /\ applied # None
    /\ prevApplied # NoPrice
    /\ applied.price < prevApplied[1]
    /\ applied.price_fg = DownColor
    /\ applied.afterFailure

\* C9: the change colour of an applied sample is the up colour iff its
\* change is >= 0, and the glyph is the up arrow iff the colour is up.
C9_ChangeColorBySign ==
    applied # None =>
        /\ applied.percent_fg \in {UpColor, DownColor}
        /\ applied.percent_fg = UpColor <=> applied.change >= 0
        /\ applied.glyph = "up_arrow" <=> applied.percent_fg = UpColor

C9_Witness ==
    /\ applied # None
    /\ applied.change = 0
    /\ applied.percent_fg = UpColor
    /\ applied.price_fg = DownColor

\* C10: after a move within a drag session the window is at the position
\* it had at button-down plus the pointer's displacement since button-down:
\* with (dx0, dy0) = (px0 - wx0, py0 - wy0) recorded at button-down, that
\* position wx0 + (px1 - px0) is px1 - dx0, and likewise for y.
C10_DragInvariant ==
    (sess # None /\ sess.moved) =>
        win = [x |-> sess.px1 - sess.dx0, y |-> sess.py1 - sess.dy0]

\* a session begun after an earlier one displaced the window, moved again
C10_Witness ==
    /\ sess # None
    /\ sess.moved
    /\ sess.displaced
    /\ win # InitialPosition
    /\ sess.dx0 # 0

\* C11: a pointer move that arrives in Idle (no button-down yet, or the last
\* button event was a button-up) leaves the window position and the drag
\* state as they were.
C11_IdleMoveIgnored ==
    [][(sess = None /\ lastEv' = "move") =>
          (win' = win /\ drag_data' = drag_data /\ drag_data' = None)]_vars

\* a move handled in Idle after an earlier session displaced the window
C11_Witness ==
    /\ lastEv = "move"
    /\ sess = None
    /\ drag_data = None
    /\ win # InitialPosition

\* C12: once a secondary-button click has been handled, in Idle or in
\* Dragging, running is false and the event loop has been stopped.
C12_Click3TearsDown ==
    lastEv = "click3" => (~running /\ m_pc \in {"stopped", "exited"})

\* the click arrived in the middle of a drag session
C12_Witness ==
    /\ lastEv = "click3"
    /\ drag_data # None
    /\ sess # None
    /\ ~running
    /\ m_pc = "stopped"

\* C13: running is true as long as construction lasts, and no step of
\* either context takes it from false back to true.
C13_RunningOneWay ==
    /\ [](m_pc \notin {"mainloop", "stopped", "exited"} => running)
    /\ [][running' => running]_vars

\* running is false and both contexts have taken steps since
C13_Witness ==
    /\ ~running
    /\ m_pc = "exited"
    /\ w_pc = "done"
    /\ fetchesAfterClose = 1

\* C14: on a constructed widget, calling quit() a second time gives the
\* state the first call gave: running, the stopped event loop, both labels,
\* previous_price, the drag state and the window position.
C14_QuitIdempotent ==
    m_pc \in {"mainloop", "stopped"} =>
        QuitResult(QuitResult(QuitState)) = QuitResult(QuitState)

\* quit() has run once, with a sample on display and a drag session open;
\* running it again would give the present state
C14_Witness ==
    /\ lastEv = "click3"
    /\ m_pc = "stopped"
    /\ drag_data # None
    /\ previous_price # NoPrice
    /\ QuitResult(QuitState) = QuitState

\* C15: a cycle whose fetch gave None (transport failure or non-success
\* status) leaves the worker in its loop, however many such cycles came
\* before it, and unless running becomes false another fetch is started.
C15_RetryForever ==
    /\ [](data.kind \in TransportKinds => w_pc \in {"sleep", "killed"})
    /\ ((data.kind \in TransportKinds /\ w_pc = "sleep")
          ~> (w_pc = "fetching" \/ ~running))

\* a fetch started right after MaxConsecFails failed cycles in a row
C15_Witness ==
    /\ consecFails = MaxConsecFails
    /\ w_pc = "fetching"
    /\ running

\* C16: whenever the worker starts a fetch that is not its first, exactly
\* one sleep has ended since the fetch before it started.
C16_OneSleepBetweenFetches ==
    [][(w_pc = "fetch" /\ w_pc' = "fetching" /\ sinceFetch # <<>>)
          => sinceFetch = <<1>>]_vars

\* a fetch started after a cycle that applied a sample and a cycle that failed
C16_Witness ==
    /\ w_pc = "fetching"
    /\ sinceFetch = <<0>>
    /\ applied # None
    /\ failedSince

\* C17: previous_price is absent as long as no sample has been applied, and
\* from then on it is the price of the most recently applied sample,
\* whichever colour that sample was shown in.
C17_PreviousPriceIsLastApplied ==
    /\ applied = None => previous_price = NoPrice
    /\ applied # None => previous_price = <<applied.price>>

\* the last applied sample was shown in the down colour
C17_Witness ==
    /\ applied # None
    /\ applied.price_fg = DownColor
    /\ previous_price = <<applied.price>>
    /\ w_pc = "sleep"

\* C18: whenever the event loop is running, the two label texts are both
\* the initial placeholders or both the rendering of one sample (the last
\* one applied, or the one being applied).
C18_LabelsFromOneSample ==
    m_pc = "mainloop" =>
        \/ /\ price_label.text = [lit |-> "Loading..."]
           /\ percent_label.text = [lit |-> ""]
        \/ /\ applied # None
           /\ price_label.text = FormatPrice(applied.price)
           /\ percent_label.text = FormatChange(applied.change)
        \/ /\ data.kind = "ok"
           /\ price_label.text = FormatPrice(data.price)
           /\ percent_label.text = FormatChange(data.change)

\* C19: while the event loop runs, the window position changes only in a
\* move handled while Dragging; a button-down and a button-up leave it as
\* it was; a button-up in Idle changes nothing, and no handler raises.
C19_OnlyDragMoveMovesWindow ==
    /\ [](~callback_error)
    /\ [][(m_pc = "mainloop" /\ win' # win) => (lastEv' = "move" /\ sess # None)]_vars
    /\ [][lastEv' \in {"down", "up", "up_idle"} => win' = win]_vars
    /\ [][(lastEv' = "up_idle" /\ sess = None)
            => (drag_data' = drag_data /\ sess' = sess)]_vars

\* a button-up handled in Idle, after an earlier session displaced the window
C19_Witness ==
    /\ lastEv = "up_idle"
    /\ drag_data = None
    /\ win # InitialPosition
    /\ ~callback_error

====
